---- MODULE Spec2Model ----
(***************************************************************************)
(* Model of job/data_export_job.py: DataExportJob.run and the five stage   *)
(* methods it calls (fetch_from_postgres, save_to_mongodb,                 *)
(* fetch_from_mongodb, export_to_csv, upload_to_azure_blob).               *)
(*                                                                         *)
(* Durable state: the staging collection, the published blob, the local    *)
(* file data_export.csv in the working directory.  Every call to an        *)
(* external store either returns or raises; which one is chosen            *)
(* nondeterministically.                                                   *)
(***************************************************************************)
EXTENDS Integers, Sequences, FiniteSets, TLC

(* ------------------------------ bounds -------------------------------- *)
\* rows the source query returns at most (the code's LIMIT, scaled down)
MaxRows == 2
\* largest reading of the UTC clock
MaxClock == 1
\* runs of the job (the scheduler invokes run() once per process)
MaxRuns == 2

(* ------------------------------ values -------------------------------- *)
\* A Python value.  t is its type; d, s carry a day number and the seconds
\* since midnight (temporal values), the integer (t = "int", "oid"), or the
\* number of a string and the line breaks it contains (t = "str");
\* keys/items carry the entries of a dict (parallel sequences) or the
\* elements of a list (keys empty).
Val(t, d, s, keys, items) == [t |-> t, d |-> d, s |-> s, keys |-> keys, items |-> items]
IntV(n) == Val("int", n, 0, <<>>, <<>>)
\* the n-th string of the source data
StrV(n) == Val("str", n, 0, <<>>, <<>>)
\* the n-th string of the source data, with `breaks` line breaks in it
TextV(n, breaks) == Val("str", n, breaks, <<>>, <<>>)
\* datetime.date(d)
DateV(d) == Val("date", d, 0, <<>>, <<>>)
\* datetime.datetime(d, s seconds after midnight); pd.Timestamp is a subclass
DatetimeV(d, s) == Val("datetime", d, s, <<>>, <<>>)
\* float NaN / pd.NaT: pd.isna(x) is true
NaN == Val("nan", 0, 0, <<>>, <<>>)
\* Python None
None == Val("none", 0, 0, <<>>, <<>>)
\* bson ObjectId: the n-th identity generated in process proc
OidV(proc, n) == Val("oid", n, proc, <<>>, <<>>)
ListV(items) == Val("list", 0, 0, <<>>, items)
DictV(keys, items) == Val("dict", 0, 0, keys, items)

\* dt.time.min: seconds after midnight of datetime.combine(date, time.min)
time_min == 0

Range(f) == {f[i] : i \in DOMAIN f}
IndexOf(seq, x) == CHOOSE i \in 1..Len(seq) : seq[i] = x
Last(seq) == seq[Len(seq)]

(* --------------------- convert_dates_to_datetime ---------------------- *)
RECURSIVE convert_dates_to_datetime(_)
\* variant: lists are stored as they are
convert_dates_no_lists(obj) ==
  IF obj.t = "dict"
    THEN DictV(obj.keys, [i \in 1..Len(obj.items) |-> convert_dates_to_datetime(obj.items[i])])
  ELSE IF obj.t = "date"
    THEN DatetimeV(obj.d, time_min)
  ELSE IF obj.t \in {"nan", "none"}
    THEN None
  ELSE obj

convert_dates_to_datetime(obj) ==
  IF obj.t = "dict"
    THEN DictV(obj.keys, [i \in 1..Len(obj.items) |-> convert_dates_to_datetime(obj.items[i])])
  ELSE IF obj.t = "list"
    THEN ListV([i \in 1..Len(obj.items) |-> convert_dates_to_datetime(obj.items[i])])
  ELSE IF obj.t = "date"
    THEN DatetimeV(obj.d, time_min)
  ELSE IF obj.t \in {"nan", "none"}
    THEN None
  ELSE obj

(* ----------------------------- DataFrame ------------------------------ *)
\* A pandas DataFrame: column names and rows (one cell per column).
Frame(columns, rows) == [columns |-> columns, rows |-> rows]
\* pd.DataFrame()
EmptyFrame == Frame(<<>>, <<>>)
\* df.empty: some axis has length 0
empty(df) == Len(df.columns) = 0 \/ Len(df.rows) = 0
\* df.to_dict('records'): one dict per row, keyed by column
to_dict_records(df) == [i \in 1..Len(df.rows) |-> DictV(df.columns, df.rows[i])]

\* record[key] = value on a dict: overwrite in place or append the key
dict_set(rec, key, value) ==
  IF key \in Range(rec.keys)
    THEN DictV(rec.keys, [rec.items EXCEPT ![IndexOf(rec.keys, key)] = value])
    ELSE DictV(Append(rec.keys, key), Append(rec.items, value))
dict_has(rec, key) == key \in Range(rec.keys)
dict_get(rec, key) == rec.items[IndexOf(rec.keys, key)]


(* --------------------------- configuration ---------------------------- *)
\* self.blob_name
blob_name == "data_export.csv"
\* csv_filename in export_to_csv
csv_filename == "data_export.csv"
\* self.container_name, blob_service_client.account_name (from the environment)
container_name == "container"
account_name == "account"
\* a Python None where a file name is expected
NoName == ""
\* a Python None where a URL is expected
NoUrl == <<>>

(* ------------------------- fetch_from_postgres ------------------------- *)
\* two contents of the source column "signup", by id: a date or SQL NULL
UsersA == [i \in 1..MaxRows |-> IF i % 2 = 1 THEN DateV(1) ELSE NaN]
UsersB == [i \in 1..MaxRows |-> IF i % 2 = 1 THEN NaN ELSE DateV(2)]
SourceTables == {UsersA, UsersB}
\* the frames read_sql_query can return over the given tables: at most
\* MaxRows rows in ascending order of id
FramesOf(tables) ==
  { Frame(<<"id", "signup">>, [i \in 1..n |-> <<IntV(i), sv[i]>>]) :
      n \in 0..MaxRows, sv \in tables }
SourceFrames == FramesOf(SourceTables)

\* the values a column of each kind of the source table can hold; NaN
\* stands for the SQL NULL of any column.  "mapping" is a column adapted to
\* Python dicts.
ValuesOf(kind) ==
  CASE kind = "date" -> {DateV(1), NaN}
    [] kind = "timestamp" -> {DatetimeV(1, 1), NaN}
    [] kind = "text" -> {StrV(1), TextV(2, 1), NaN}
    [] kind = "date[]" -> {ListV(<<DateV(1), NaN>>), NaN}
    [] kind = "mapping" -> {DictV(<<"since", "tags">>, <<DateV(2), ListV(<<StrV(1)>>)>>), NaN}
ColumnKinds == {"date", "timestamp", "text", "date[]", "mapping"}

\* the frames read_sql_query can return for a table with the columns id and
\* value, value being of any one kind
ValueFrames ==
  { Frame(<<"id", "value">>, [i \in 1..n |-> <<IntV(i), sv[i]>>]) :
      n \in 0..MaxRows, sv \in UNION { [1..MaxRows -> ValuesOf(kind)] : kind \in ColumnKinds } }

(* --------------------------- save_to_mongodb --------------------------- *)
\* datetime.utcnow() when the clock reads c
utcnow(c) == DatetimeV(0, c)

\* the readings of the clock during n successive calls made when it reads
\* c or later: the clock never runs backwards
ClockReadings(n, c) ==
  { r \in [1..n -> c..MaxClock] : \A i \in 1..n : \A j \in 1..n : i <= j => r[i] <= r[j] }

\* variant: the collection is not cleared
delete_many_noop(coll) == coll

\* collection.delete_many({})
delete_many(coll) == <<>>

\* the loop over records: convert every record, then stamp it with the
\* clock reading taken at its iteration
processed_records(records, readings) ==
  [i \in 1..Len(records) |->
     dict_set(convert_dates_to_datetime(records[i]), "synced_at", utcnow(readings[i]))]

\* the document the store keeps for record doc: _id is generated when absent
\* and is the first field of the stored document
with_id(doc, oid) ==
  IF dict_has(doc, "_id") THEN doc
  ELSE DictV(<<"_id">> \o doc.keys, <<oid>> \o doc.items)

\* collection.insert_many(docs) in process proc, whose identity counter
\* stands at firstId, of which the first k documents reach the
\* store (ordered bulk write: k = Len(docs) when it returns, k < Len(docs)
\* when it raises)
insert_many(coll, docs, k, proc, firstId) ==
  coll \o [i \in 1..k |-> with_id(docs[i], OidV(proc, firstId + i - 1))]

(* -------------------------- fetch_from_mongodb ------------------------- *)
\* the column index of pd.DataFrame(documents): the union of the documents'
\* keys in the order of first appearance
RECURSIVE union_keys(_, _)
union_keys(cols, ks) ==
  IF ks = <<>> THEN cols
  ELSE union_keys(IF Head(ks) \in Range(cols) THEN cols ELSE Append(cols, Head(ks)), Tail(ks))
RECURSIVE frame_columns(_, _)
frame_columns(cols, documents) ==
  IF documents = <<>> THEN cols
  ELSE frame_columns(union_keys(cols, Head(documents).keys), Tail(documents))

\* pd.DataFrame(documents): a missing field is NaN
DataFrame(documents) ==
  LET cols == frame_columns(<<>>, documents)
  IN  Frame(cols,
            [i \in 1..Len(documents) |->
               [c \in 1..Len(cols) |->
                  IF dict_has(documents[i], cols[c])
                    THEN dict_get(documents[i], cols[c]) ELSE NaN]])

\* seq without its element at position p
RemoveAt(seq, p) == [i \in 1..(Len(seq) - 1) |-> IF i < p THEN seq[i] ELSE seq[i + 1]]

\* df.drop(col, axis=1)
drop(df, col) ==
  LET p == IndexOf(df.columns, col)
  IN  Frame(RemoveAt(df.columns, p), [i \in 1..Len(df.rows) |-> RemoveAt(df.rows[i], p)])

\* variant: the _id column is not dropped
fetch_from_mongodb_keep_id(documents) ==
  IF documents = <<>> THEN EmptyFrame ELSE DataFrame(documents)

\* the frame fetch_from_mongodb returns for the documents find() yields
fetch_from_mongodb_result(documents) ==
  IF documents = <<>> THEN EmptyFrame
  ELSE LET df == DataFrame(documents)
       IN  IF "_id" \in Range(df.columns) THEN drop(df, "_id") ELSE df

(* ----------------------------- export_to_csv --------------------------- *)
\* the text of one CSV field.  k says how it was produced: "name" a column
\* name, "empty" the empty field, "int" decimal digits, "float" digits with
\* a fraction part, "str" the string itself, "strftime" the layout
\* YYYY-MM-DD HH:MM:SS, "isoformat" the layout YYYY-MM-DDTHH:MM:SS,
\* "isodate" the layout YYYY-MM-DD, "repr" Python's str() of the container
\* `of`.  For a string, s is the number of line breaks in it.
Txt(k, name, d, s, of) == [k |-> k, name |-> name, d |-> d, s |-> s, of |-> of]

column(df, c) == [i \in 1..Len(df.rows) |-> df.rows[i][c]]
isnull(x) == x.t \in {"nan", "none"}

\* the dtype pandas infers for a column built from Python objects
dtype(col) ==
  IF \A i \in 1..Len(col) : col[i].t = "datetime" \/ isnull(col[i])
     THEN IF \E i \in 1..Len(col) : col[i].t = "datetime" THEN "datetime64" ELSE "object"
  ELSE IF \A i \in 1..Len(col) : col[i].t = "int" THEN "int64"
  ELSE IF \A i \in 1..Len(col) : col[i].t = "int" \/ isnull(col[i]) THEN "float64"
  ELSE "object"

\* hasattr(x, 'isoformat')
has_isoformat(x) == x.t \in {"date", "datetime"}

\* the field to_csv writes for value x of a column of dtype dt, after the
\* loop of export_to_csv has rewritten the column
render(x, dt) ==
  IF dt = "datetime64"
    THEN IF isnull(x) THEN Txt("empty", "", 0, 0, None)
         ELSE Txt("strftime", "", x.d, x.s, None)
  ELSE IF dt = "object"
    THEN IF has_isoformat(x)
           THEN IF x.t = "datetime" THEN Txt("isoformat", "", x.d, x.s, None)
                ELSE Txt("isodate", "", x.d, 0, None)
         ELSE IF isnull(x) THEN Txt("empty", "", 0, 0, None)
         ELSE IF x.t = "str" THEN Txt("str", "", x.d, x.s, None)
         ELSE IF x.t = "int" THEN Txt("int", "", x.d, 0, None)
         ELSE Txt("repr", "", 0, 0, x)
  ELSE IF dt = "float64"
    THEN IF isnull(x) THEN Txt("empty", "", 0, 0, None) ELSE Txt("float", "", x.d, 0, None)
  ELSE Txt("int", "", x.d, 0, None)

\* variant: to_csv is called with header=False
to_csv_no_header(df) ==
  [i \in 1..Len(df.rows) |->
     [c \in 1..Len(df.columns) |-> render(df.rows[i][c], dtype(column(df, c)))]]

\* the lines df_copy.to_csv(csv_filename, index=False) writes: the header,
\* then one line per row
to_csv(df) ==
  <<[c \in 1..Len(df.columns) |-> Txt("name", df.columns[c], 0, 0, None)]>> \o
  [i \in 1..Len(df.rows) |->
     [c \in 1..Len(df.columns) |-> render(df.rows[i][c], dtype(column(df, c)))]]

\* the line breaks inside the fields fs: to_csv quotes a field that
\* contains a line break and writes the break as it is
RECURSIVE field_breaks(_)
field_breaks(fs) ==
  IF fs = <<>> THEN 0
  ELSE (IF Head(fs).k = "str" THEN Head(fs).s ELSE 0) + field_breaks(Tail(fs))

\* the number of text lines of a file with the CSV rows `lines`
RECURSIVE text_lines(_)
text_lines(lines) ==
  IF lines = <<>> THEN 0
  ELSE 1 + field_breaks(Head(lines)) + text_lines(Tail(lines))

\* a file or blob: whether it exists and its lines
File(exists, lines) == [exists |-> exists, lines |-> lines]
NoFile == File(FALSE, <<>>)

\* variant: the export is skipped when the file already exists
written_file_if_absent(old, lines) == IF old.exists THEN old ELSE File(TRUE, lines)

\* the file after to_csv wrote `lines` to it: an existing file is replaced
written_file(old, lines) == File(TRUE, lines)

\* variant: no test of df.empty
export_to_csv_always(df) == [name |-> csv_filename, write |-> TRUE, lines |-> to_csv(df)]

\* what export_to_csv does with frame df: the name it returns, whether it
\* writes the file and the lines it writes
export_to_csv_result(df) ==
  IF empty(df) THEN [name |-> NoName, write |-> FALSE, lines |-> <<>>]
  ELSE [name |-> csv_filename, write |-> TRUE, lines |-> to_csv(df)]

(* -------------------------- upload_to_azure_blob ----------------------- *)
\* variant: the URL is printed and not returned
blob_url_of_none(account, container, blob) == NoUrl

\* blob_url
blob_url_of(account, container, blob) ==
  <<"https://", account, ".blob.core.windows.net/", container, "/", blob>>

\* variant: an existing blob is kept (no overwrite)
upload_blob_keep(old, data) == IF old.exists THEN old ELSE File(TRUE, data)

\* blob_client.upload_blob(data, overwrite=True)
upload_blob(old, data) == File(TRUE, data)

(* ------------------------------- state --------------------------------- *)
VARIABLES
  collection,   \* the documents of the staging collection, in insertion order
  blob,         \* the published blob container/blob_name
  localFile,    \* the file data_export.csv of the working directory
  clock,        \* the reading of the UTC clock
  nextId,       \* the identity counter of the running process
  runs,         \* invocations of run() so far
  pc,           \* where run() stands: idle, stage1 .. stage5, terminal
  df_postgres,  \* run(): result of stage 1
  df_mongo,     \* run(): result of stage 3
  csv_file,     \* run(): result of stage 4
  blob_url,     \* run(): result of stage 5
  outcome,      \* how run() ended: completed, skipped (both return), raised
  executed,     \* history: the stages this run has entered, in order
  failedAt,     \* history: the stage of this run that failed, 0 if none
  stagerFault,  \* history: the call of the Stager that raised in this run
  blobBefore,   \* history: the blob when this run started
  collBefore,   \* history: the collection when this run started
  fileBefore,   \* history: the local file when this run started
  lastStaged,   \* history: the RecordSet of the latest completed Stager
  restaged,     \* history: this run's Stager completed with the RecordSet
                \* of the Stager execution before it
  open_conns,   \* the store connections this process opened and has not closed
  prevRun       \* history: outcome and URL of the run before this one

vars == <<collection, blob, localFile, clock, nextId, runs, pc, df_postgres, df_mongo,
          csv_file, blob_url, outcome, executed, failedAt, stagerFault, blobBefore,
          collBefore, fileBefore, lastStaged, restaged, open_conns, prevRun>>

durable == <<collection, blob, localFile, clock, nextId>>
history == <<stagerFault, blobBefore, collBefore, fileBefore, lastStaged, restaged, prevRun>>

Init ==
  /\ collection = <<>>
  /\ blob = NoFile
  /\ localFile = NoFile
  /\ clock = 0
  /\ nextId = 1
  /\ runs = 0
  /\ pc = "idle"
  /\ df_postgres = EmptyFrame
  /\ df_mongo = EmptyFrame
  /\ csv_file = NoName
  /\ blob_url = NoUrl
  /\ outcome = "none"
  /\ executed = <<>>
  /\ failedAt = 0
  /\ stagerFault = "none"
  /\ blobBefore = NoFile
  /\ collBefore = <<>>
  /\ fileBefore = NoFile
  /\ lastStaged = [ok |-> FALSE, df |-> EmptyFrame]
  /\ restaged = FALSE
  /\ open_conns = {}
  /\ prevRun = [outcome |-> "none", url |-> NoUrl]

(* -------------------------------- run() -------------------------------- *)
\* the program position of stage k (6: past the last stage)
StagePc(k) == <<"stage1", "stage2", "stage3", "stage4", "stage5", "terminal">>[k]

\* variant: the failure of a stage is reported and the run goes on with the
\* next stage
run_except_continue(stage) ==
  IF stage < 5 THEN [pc |-> StagePc(stage + 1), outcome |-> "none"]
  ELSE [pc |-> "terminal", outcome |-> "raised"]

\* variant: a stage that failed is tried again
run_except_retry(stage) == [pc |-> StagePc(stage), outcome |-> "none"]

\* variant: the except clause reports the error and does not re-raise it
run_except_swallow(stage) == [pc |-> "terminal", outcome |-> "error_returned"]

\* the except clause of run(): report, then re-raise to the caller
run_except(stage) == [pc |-> "terminal", outcome |-> "raised"]

\* variant: run() goes on to stage 5 whatever export_to_csv returned
after_export_no_return(name) == [pc |-> "stage5", outcome |-> "none"]

\* `if not csv_file: ... return` after stage 4
after_export(name) ==
  IF name = NoName THEN [pc |-> "terminal", outcome |-> "skipped"]
  ELSE [pc |-> "stage5", outcome |-> "none"]

\* stage `stage` raised
Raise(stage) ==
  /\ pc' = run_except(stage).pc
  /\ outcome' = run_except(stage).outcome
  /\ failedAt' = stage

\* the process entry point: job = DataExportJob(); job.run().  Each run is a
\* process of its own: it starts with no connection open and with its own
\* identity counter.
StartRun ==
  /\ pc \in {"idle", "terminal"}
  /\ runs < MaxRuns
  /\ runs' = runs + 1
  /\ pc' = "stage1"
  /\ df_postgres' = EmptyFrame
  /\ df_mongo' = EmptyFrame
  /\ csv_file' = NoName
  /\ blob_url' = NoUrl
  /\ outcome' = "none"
  /\ executed' = <<>>
  /\ failedAt' = 0
  /\ stagerFault' = "none"
  /\ restaged' = FALSE
  /\ blobBefore' = blob
  /\ collBefore' = collection
  /\ fileBefore' = localFile
  /\ open_conns' = {}
  /\ prevRun' = [outcome |-> outcome, url |-> blob_url]
  /\ nextId' = 1
  /\ UNCHANGED <<collection, blob, localFile, clock, lastStaged>>

\* self.fetch_from_postgres() when the query can return the frames `frames`.
\* fault names the call that raises: psycopg2.connect, or read_sql_query on
\* the open connection; conn.close() follows a read_sql_query that returned.
FetchFromPostgres(frames) ==
  /\ pc = "stage1"
  /\ executed' = Append(executed, 1)
  /\ \E fault \in {"none", "connect", "query"}, df \in frames :
       IF fault = "none"
         THEN /\ df_postgres' = df
              /\ pc' = "stage2"
              /\ open_conns' = (open_conns \cup {"postgres"}) \ {"postgres"}
              /\ UNCHANGED <<outcome, failedAt>>
         ELSE /\ Raise(1)
              /\ open_conns' = IF fault = "query" THEN open_conns \cup {"postgres"}
                                ELSE open_conns
              /\ UNCHANGED df_postgres
  /\ UNCHANGED <<durable, runs, df_mongo, csv_file, blob_url, history>>

\* [Step 1] df_postgres = self.fetch_from_postgres()
fetch_from_postgres == FetchFromPostgres(SourceFrames)

\* [Step 2] self.save_to_mongodb(df_postgres).  fault names the step that
\* raises: delete_many, the loop that converts the records (after
\* delete_many returned), or insert_many after k documents were written.
\* client.close() is the last statement: it follows only a Stager that
\* raised nowhere.
save_to_mongodb ==
  /\ pc = "stage2"
  /\ executed' = Append(executed, 2)
  /\ LET records == to_dict_records(df_postgres)
         n == Len(records)
     IN  \E fault \in {"none", "delete", "normalize", "insert"}, k \in 0..n,
            readings \in ClockReadings(n, clock) :
           LET docs == processed_records(records, readings)
           IN  CASE fault = "delete" ->
                      /\ k = 0
                      /\ readings = [i \in 1..n |-> clock]
                      /\ Raise(2)
                      /\ stagerFault' = "delete"
                      /\ open_conns' = open_conns \cup {"mongo_stage2"}
                      /\ UNCHANGED <<collection, clock, nextId, lastStaged, restaged>>
                 [] fault = "normalize" ->
                      /\ n > 0
                      /\ k = 0
                      /\ readings = [i \in 1..n |-> clock]
                      /\ collection' = delete_many(collection)
                      /\ Raise(2)
                      /\ stagerFault' = "normalize"
                      /\ open_conns' = open_conns \cup {"mongo_stage2"}
                      /\ UNCHANGED <<clock, nextId, lastStaged, restaged>>
                 [] fault = "insert" ->
                      /\ docs # <<>>
                      /\ k < n
                      /\ collection' = insert_many(delete_many(collection), docs, k, runs, nextId)
                      /\ nextId' = nextId + k
                      /\ clock' = Last(readings)
                      /\ Raise(2)
                      /\ stagerFault' = "insert"
                      /\ open_conns' = open_conns \cup {"mongo_stage2"}
                      /\ UNCHANGED <<lastStaged, restaged>>
                 [] fault = "none" ->
                      /\ k = n
                      /\ collection' = IF docs # <<>>
                                         THEN insert_many(delete_many(collection), docs, n, runs, nextId)
                                         ELSE delete_many(collection)
                      /\ nextId' = nextId + n
                      /\ clock' = IF n > 0 THEN Last(readings) ELSE clock
                      /\ pc' = "stage3"
                      /\ lastStaged' = [ok |-> TRUE, df |-> df_postgres]
                      /\ restaged' = (lastStaged.ok /\ lastStaged.df = df_postgres)
                      /\ open_conns' = (open_conns \cup {"mongo_stage2"}) \ {"mongo_stage2"}
                      /\ UNCHANGED <<outcome, failedAt, stagerFault>>
  /\ UNCHANGED <<blob, localFile, runs, df_postgres, df_mongo, csv_file, blob_url,
                 blobBefore, collBefore, fileBefore, prevRun>>

\* [Step 3] df_mongo = self.fetch_from_mongodb().  When find() raises, the
\* client stays open; both returns are preceded by client.close().
fetch_from_mongodb ==
  /\ pc = "stage3"
  /\ executed' = Append(executed, 3)
  /\ \E ok \in BOOLEAN :
       IF ok
         THEN /\ df_mongo' = fetch_from_mongodb_result(collection)
              /\ pc' = "stage4"
              /\ open_conns' = (open_conns \cup {"mongo_stage3"}) \ {"mongo_stage3"}
              /\ UNCHANGED <<outcome, failedAt>>
         ELSE /\ Raise(3)
              /\ open_conns' = open_conns \cup {"mongo_stage3"}
              /\ UNCHANGED df_mongo
  /\ UNCHANGED <<durable, runs, df_postgres, csv_file, blob_url, history>>

\* [Step 4] csv_file = self.export_to_csv(df_mongo), then the test of
\* csv_file.  A to_csv that raises leaves the file as it was or truncated.
export_to_csv ==
  /\ pc = "stage4"
  /\ executed' = Append(executed, 4)
  /\ \E ok \in BOOLEAN, truncated \in BOOLEAN :
       LET res == export_to_csv_result(df_mongo)
       IN  IF ok
             THEN /\ ~truncated
                  /\ localFile' = IF res.write THEN written_file(localFile, res.lines) ELSE localFile
                  /\ csv_file' = res.name
                  /\ pc' = after_export(res.name).pc
                  /\ outcome' = after_export(res.name).outcome
                  /\ failedAt' = IF res.name = NoName THEN 4 ELSE failedAt
             ELSE /\ res.write
                  /\ localFile' = IF truncated THEN File(TRUE, <<>>) ELSE localFile
                  /\ Raise(4)
                  /\ UNCHANGED csv_file
  /\ UNCHANGED <<collection, blob, clock, nextId, runs, df_postgres, df_mongo, blob_url,
                 history, open_conns>>

\* [Step 5] blob_url = self.upload_to_azure_blob(csv_file), then the removal
\* of the local file and the report of success
upload_to_azure_blob ==
  /\ pc = "stage5"
  /\ executed' = Append(executed, 5)
  /\ \E ok \in BOOLEAN :
       IF csv_file = NoName
         THEN /\ ok
              /\ blob_url' = NoUrl
              /\ pc' = "terminal"
              /\ outcome' = "completed"
              /\ UNCHANGED <<blob, localFile, failedAt>>
       ELSE IF ok /\ localFile.exists
         THEN /\ blob' = upload_blob(blob, localFile.lines)
              /\ blob_url' = blob_url_of(account_name, container_name, blob_name)
              /\ localFile' = NoFile
              /\ pc' = "terminal"
              /\ outcome' = "completed"
              /\ UNCHANGED failedAt
         ELSE /\ ~ok
              /\ Raise(5)
              /\ UNCHANGED <<blob, localFile, blob_url>>
  /\ UNCHANGED <<collection, clock, nextId, runs, df_postgres, df_mongo, csv_file, history,
                 open_conns>>

Next ==
  \/ StartRun
  \/ fetch_from_postgres
  \/ save_to_mongodb
  \/ fetch_from_mongodb
  \/ export_to_csv
  \/ upload_to_azure_blob

Spec == Init /\ [][Next]_vars

\* a step of run(): the single thread of the process goes on as long as a
\* stage is pending, every call to a store returning or raising
StageStep ==
  \/ fetch_from_postgres
  \/ save_to_mongodb
  \/ fetch_from_mongodb
  \/ export_to_csv
  \/ upload_to_azure_blob

\* Runs over one source table, the single thread of each going on as long
\* as a stage is pending: control flow does not depend on the values read.
fetch_users == FetchFromPostgres(FramesOf({UsersA}))
NextUsers ==
  \/ StartRun
  \/ fetch_users
  \/ save_to_mongodb
  \/ fetch_from_mongodb
  \/ export_to_csv
  \/ upload_to_azure_blob

FairSpec == Init /\ [][NextUsers]_vars /\ WF_vars(StageStep)

\* One run over a source table whose second column is of any kind: the
\* inputs of the Stager's normalization and of the Serializer.
fetch_values == FetchFromPostgres(ValueFrames)
StartSingleRun == runs = 0 /\ StartRun
NextValues ==
  \/ StartSingleRun
  \/ fetch_values
  \/ save_to_mongodb
  \/ fetch_from_mongodb
  \/ export_to_csv
  \/ upload_to_azure_blob

SpecValues == Init /\ [][NextValues]_vars

(* ------------------------------ vocabulary ----------------------------- *)
Terminal == pc = "terminal"
SUCCEEDED == Terminal /\ outcome = "completed"
FAILED == Terminal /\ outcome \in {"skipped", "raised"}
Entered(stage) == stage \in Range(executed)

TypeOK ==
  /\ pc \in {"idle", "stage1", "stage2", "stage3", "stage4", "stage5", "terminal"}
  /\ outcome \in {"none", "completed", "skipped", "raised"}
  /\ csv_file \in {NoName, csv_filename}
  /\ runs \in 0..MaxRuns
  /\ clock \in 0..MaxClock
  /\ failedAt \in 0..5

(* ------------------------------- claims -------------------------------- *)
\* upload_blob returned in this run: only then is blob_url set
Uploaded == blob_url # NoUrl

\* C1: the blob is written only in a run whose stages 1 to 4 all succeeded,
\* and in a run that failed (by an error or by the no-data condition) in one
\* of the stages 1 to 4 the blob equals the blob the run started with.
C1_NoPartialPublish ==
  /\ Uploaded => (executed = <<1, 2, 3, 4, 5>> /\ failedAt = 0)
  /\ blob # blobBefore => Uploaded
  /\ failedAt \in 1..4 => (blob = blobBefore /\ ~Uploaded)

\* a second run failed before stage 5 while a blob of the first run exists
C1_Witness == FAILED /\ failedAt \in 1..4 /\ blobBefore.exists /\ blob = blobBefore

\* C2: the stages are entered in the order 1, 2, 3, 4, 5; a stage is entered
\* only when all stages before it succeeded; once a stage has failed the run
\* is FAILED and that stage is the last one entered.
C2_StrictOrder ==
  /\ \A i \in 1..Len(executed) : executed[i] = i
  /\ \A k \in 1..5 : pc = StagePc(k) => (Len(executed) = k - 1 /\ failedAt = 0)
  /\ failedAt # 0 => (FAILED /\ Len(executed) = failedAt)

\* the no-data condition of stage 4 ended the run before stage 5
C2_Witness == FAILED /\ outcome = "skipped" /\ executed = <<1, 2, 3, 4>>

\* C3: a run reports successful completion only after stage 5 of the same
\* run uploaded the artifact and returned the retrieval URL.
C3_SuccessOnlyWithUrl ==
  outcome = "completed" =>
    /\ Terminal
    /\ executed = <<1, 2, 3, 4, 5>>
    /\ blob_url = <<"https://", account_name, ".blob.core.windows.net/", container_name, "/",
                    blob_name>>
    /\ blob.exists

\* a run that succeeded
C3_Witness == SUCCEEDED /\ Uploaded /\ Len(blob.lines) > 1

\* stage 2 of this run returned
StagerSucceeded == Entered(2) /\ failedAt # 2

\* the value the Stager is to store for source value x: a date-only value
\* becomes the instant at midnight of that date, a missing value becomes null
Expected(x) ==
  IF x.t = "date" THEN [x EXCEPT !.t = "datetime", !.s = 0]
  ELSE IF x.t \in {"nan", "none"} THEN None
  ELSE x

\* document doc is the stamped, normalized form of row r of this run's RecordSet
IsDocOf(doc, r) ==
  /\ doc.keys = <<"_id">> \o df_postgres.columns \o <<"synced_at">>
  /\ \A c \in 1..Len(df_postgres.columns) :
       dict_get(doc, df_postgres.columns[c]) = Expected(df_postgres.rows[r][c])
  /\ dict_get(doc, "synced_at").t = "datetime"
  /\ dict_get(doc, "_id").t = "oid"

\* document doc was in the collection when this run started
IsResidue(doc) ==
  \E j \in 1..Len(collBefore) : dict_get(collBefore[j], "_id") = dict_get(doc, "_id")

\* C4: after a successful Stager the collection holds, for any prior
\* contents, exactly one document per record of this run's RecordSet, in
\* order, normalized and stamped, and no document of an earlier run.
C4_FullReplacement ==
  StagerSucceeded =>
    /\ Len(collection) = Len(df_postgres.rows)
    /\ \A i \in 1..Len(collection) : IsDocOf(collection[i], i) /\ ~IsResidue(collection[i])
    /\ \A i \in 1..Len(collection) : \A j \in 1..Len(collection) :
         dict_get(collection[i], "_id") = dict_get(collection[j], "_id") => i = j

\* the Stager replaced a non-empty collection by a different number of records
C4_Witness ==
  /\ StagerSucceeded
  /\ collBefore # <<>>
  /\ df_postgres.rows # <<>>
  /\ Len(collBefore) # Len(df_postgres.rows)

\* C5: all documents the Stager of one run writes carry the same synced_at,
\* also when the clock advances while the records are processed.
C5_SameSyncedAt ==
  (Entered(2) /\ stagerFault # "delete") =>
    \A i \in 1..Len(collection) : \A j \in 1..Len(collection) :
      dict_get(collection[i], "synced_at") = dict_get(collection[j], "synced_at")

\* C6: when the Stager ran twice in sequence with the same RecordSet the
\* collection holds one document per record, not two.
C6_StagerIdempotent ==
  restaged =>
    /\ Len(collection) = Len(lastStaged.df.rows)
    /\ \A r \in 1..Len(lastStaged.df.rows) :
         Cardinality({j \in 1..Len(collection) :
                        dict_get(collection[j], "id") = lastStaged.df.rows[r][1]}) = 1

\* the second of two Stager executions with the same non-empty RecordSet
C6_Witness == restaged /\ collBefore # <<>> /\ Len(collection) = Len(collBefore)

ZeroRows == Entered(2) /\ df_postgres.rows = <<>>

\* the Serializer's no-data condition ended this run
NoData == failedAt = 4 /\ empty(df_mongo)

\* C8: in a run whose source query returned zero rows the Stager leaves the
\* collection empty, the Re-extractor yields the empty RecordSet, the
\* Serializer writes no file and returns no name, no upload is attempted,
\* and, no store call having raised, the run ends in the no-data outcome,
\* which is not the outcome of a raised error.
C8_ZeroRowsSkipped ==
  ZeroRows =>
    /\ StagerSucceeded => collection = <<>>
    /\ (Entered(3) /\ failedAt # 3) => (df_mongo = EmptyFrame /\ empty(df_mongo))
    /\ csv_file = NoName /\ localFile = fileBefore
    /\ ~Entered(5) /\ ~Uploaded /\ blob = blobBefore
    /\ (Terminal /\ stagerFault = "none" /\ failedAt # 3) =>
         (outcome = "skipped" /\ FAILED /\ executed = <<1, 2, 3, 4>>)

\* a zero-row run after a run that had filled the collection and the blob
C8_Witness ==
  Terminal /\ ZeroRows /\ outcome = "skipped" /\ collBefore # <<>> /\ blobBefore.exists

\* C9 as stated: a run that ends FAILED never returns normally to the caller
\* of run(): the failure is raised again.
C9_FailedNeverReturns == FAILED => outcome = "raised"

\* C9 as amended: a run in which a stage raised an error ends by raising
\* that error again to the caller of run(); a run that ends FAILED by the
\* Serializer's no-data condition returns to its caller normally.
C9_RaisedErrorsResurface ==
  Terminal =>
    /\ (failedAt # 0 /\ ~NoData) => outcome = "raised"
    /\ NoData => outcome = "skipped"

\* the Re-extractor raised and run() raised again
C9_Witness == FAILED /\ failedAt = 3 /\ outcome = "raised"

\* C10: when the Serializer wrote the local file in a run, the file does not
\* exist when the run is terminal, whether the publish attempt succeeded or
\* failed.
C10_LocalFileRemoved == (Terminal /\ csv_file # NoName) => ~localFile.exists

\* C11: when a run succeeds after a run that succeeded, it returns the URL
\* the earlier run returned, and the blob holds the artifact of the later
\* run alone: the header and one line per record of that run.
C11_OverwriteSameUrl ==
  (SUCCEEDED /\ prevRun.outcome = "completed") =>
    /\ blob_url = prevRun.url
    /\ blob_url # NoUrl
    /\ blob = File(TRUE, to_csv(df_mongo))
    /\ Len(blob.lines) = Len(df_postgres.rows) + 1

\* the second of two successful runs published other, shorter data
C11_Witness ==
  /\ SUCCEEDED /\ prevRun.outcome = "completed"
  /\ blobBefore.exists /\ blob # blobBefore
  /\ Len(blob.lines) < Len(blobBefore.lines)

\* C12: the Re-extractor's frame has no column _id and no identity value,
\* and neither the local artifact nor the blob has a field named _id or an
\* identity value.
C12_NoIdentityField ==
  /\ "_id" \notin Range(df_mongo.columns)
  /\ \A i \in 1..Len(df_mongo.rows) :
       /\ Len(df_mongo.rows[i]) = Len(df_mongo.columns)
       /\ \A c \in 1..Len(df_mongo.rows[i]) : df_mongo.rows[i][c].t # "oid"
  /\ \A f \in {localFile, blob} :
       \A l \in 1..Len(f.lines) : \A c \in 1..Len(f.lines[l]) :
         f.lines[l][c].name # "_id" /\ f.lines[l][c].of.t # "oid"

\* the Re-extractor returned the documents of a non-empty collection and
\* the Serializer wrote them
C12_Witness ==
  /\ pc = "stage5"
  /\ collection # <<>>
  /\ Len(df_mongo.rows) = Len(collection)
  /\ localFile.exists

\* C13: when a run is terminal, every connection it opened is closed.
C13_ConnectionsClosed == Terminal => open_conns = {}

\* C16: a failure while the records are normalized leaves the collection
\* with the contents it had before the run.
C16_NormalizeBeforeDelete == stagerFault = "normalize" => collection = collBefore

\* C18: a step changes the collection only in stage 2 and the blob only in
\* stage 5, and a run that failed in stage 1 has the collection and the blob
\* it started with.
C18_FrameEffects ==
  [][ /\ collection' # collection => pc = "stage2"
      /\ blob' # blob => pc = "stage5"
      /\ failedAt' = 1 => (collection' = collBefore' /\ blob' = blobBefore') ]_vars

\* a run failed in stage 1 while the collection and the blob held an
\* earlier run's data
C18_Witness == FAILED /\ failedAt = 1 /\ collBefore # <<>> /\ blobBefore.exists

\* C19: whenever the latest run succeeded, the blob is the serialization of
\* the current collection without the identity field, and its lines are the
\* header of the source columns and synced_at followed by one line per
\* record this run extracted, in order, normalized and stamped; it is not
\* the local file an earlier run left behind.
C19_BlobIsThisRunsExport ==
  SUCCEEDED =>
    /\ blob.exists
    /\ blob.lines = to_csv(fetch_from_mongodb_result(collection))
    /\ Len(blob.lines) = Len(df_postgres.rows) + 1
    /\ [c \in 1..Len(blob.lines[1]) |-> blob.lines[1][c].name]
         = df_postgres.columns \o <<"synced_at">>
    /\ \A i \in 1..Len(df_postgres.rows) :
         LET line == blob.lines[i + 1]
             x == Expected(df_postgres.rows[i][2])
             stamp == dict_get(collection[i], "synced_at")
         IN  /\ line[1] = Txt("int", "", df_postgres.rows[i][1].d, 0, None)
             /\ line[2] = IF isnull(x) THEN Txt("empty", "", 0, 0, None)
                          ELSE Txt("strftime", "", x.d, 0, None)
             /\ line[3] = Txt("strftime", "", stamp.d, stamp.s, None)

\* a run succeeded although an earlier run had left a different file behind
C19_Witness == SUCCEEDED /\ fileBefore.exists /\ fileBefore.lines # blob.lines

\* a stage of this run is pending
Running == pc \in {"stage1", "stage2", "stage3", "stage4", "stage5"}

\* C17: no run enters a stage twice, and every run that has started reaches
\* a terminal state (every call to a store returning or raising).
C17_TerminatesWithoutRetry ==
  /\ [](\A i \in 1..Len(executed) : \A j \in 1..Len(executed) :
          executed[i] = executed[j] => i = j)
  /\ [](Running => <>Terminal)

\* a run went through all five stages and ended
C17_Witness == Terminal /\ executed = <<1, 2, 3, 4, 5>> /\ runs > 1

\* the Serializer of this run wrote the artifact and it has not been removed
Exported == pc = "stage5" /\ csv_file # NoName

\* C14 as stated: the artifact of a non-empty RecordSet R has exactly
\* len(R)+1 text lines.
C14_TextLines ==
  Exported => text_lines(localFile.lines) = Len(df_mongo.rows) + 1

\* C14 as amended: the artifact of a non-empty RecordSet R has exactly
\* len(R)+1 CSV rows, the header of the column names followed by one row per
\* Record in the order of the Records; these are len(R)+1 text lines when no
\* value of R contains a line break.
C14_CsvRows ==
  Exported =>
    /\ df_mongo.rows # <<>>
    /\ Len(localFile.lines) = Len(df_mongo.rows) + 1
    /\ [c \in 1..Len(localFile.lines[1]) |-> localFile.lines[1][c].name] = df_mongo.columns
    /\ \A c \in 1..Len(localFile.lines[1]) : localFile.lines[1][c].k = "name"
    /\ \A i \in 1..Len(df_mongo.rows) :
         /\ Len(localFile.lines[i + 1]) = Len(df_mongo.columns)
         /\ localFile.lines[i + 1][1] = Txt("int", "", df_mongo.rows[i][1].d, 0, None)
         /\ df_mongo.rows[i][1] = IntV(i)
    /\ (\A i \in 1..Len(df_mongo.rows) : \A c \in 1..Len(df_mongo.columns) :
          df_mongo.rows[i][c].t = "str" => df_mongo.rows[i][c].s = 0)
         => text_lines(localFile.lines) = Len(df_mongo.rows) + 1

\* the Serializer wrote two records of strings without a line break
C14_Witness ==
  /\ Exported
  /\ Len(df_mongo.rows) = 2
  /\ \A i \in 1..2 : df_mongo.rows[i][2].t = "str" /\ df_mongo.rows[i][2].s = 0
  /\ text_lines(localFile.lines) = 3

\* value x has a date-only value in it
RECURSIVE HasDate(_)
HasDate(x) == x.t = "date" \/ \E i \in 1..Len(x.items) : HasDate(x.items[i])

\* y is x with every date-only value, at any depth, replaced by the instant
\* at midnight of that date, every missing value replaced by null, and
\* nothing else changed
RECURSIVE Normalizes(_, _)
Normalizes(x, y) ==
  IF x.t = "date" THEN y = [x EXCEPT !.t = "datetime", !.s = 0]
  ELSE IF x.t \in {"nan", "none"} THEN y = None
  ELSE IF x.t \in {"list", "dict"}
    THEN /\ y.t = x.t /\ y.keys = x.keys /\ Len(y.items) = Len(x.items)
         /\ \A i \in 1..Len(x.items) : Normalizes(x.items[i], y.items[i])
  ELSE y = x

\* C15 as stated: every date-only value of a Record, top-level or nested, is
\* stored as the instant at midnight of its date, and the field the
\* Serializer writes for it has the layout YYYY-MM-DD 00:00:00.
C15_DateRendering ==
  Exported =>
    \A i \in 1..Len(df_postgres.rows) :
      LET x == df_postgres.rows[i][2]
      IN  HasDate(x) =>
            /\ Normalizes(x, dict_get(collection[i], "value"))
            /\ localFile.lines[i + 1][2].k = "strftime"
            /\ localFile.lines[i + 1][2].s = 0

\* C15 as amended: every date-only value, top-level or nested, is stored as
\* the instant at midnight of its date; a date-only value that is itself the
\* value of a field is written as YYYY-MM-DD 00:00:00 (the other values of
\* its column being instants or null), and a value nested in a sequence or
\* mapping is written as part of the text of that container.
C15_DateNormalization ==
  Exported =>
    \A i \in 1..Len(df_postgres.rows) :
      LET x == df_postgres.rows[i][2]
          y == dict_get(collection[i], "value")
          f == localFile.lines[i + 1][2]
      IN  /\ Normalizes(x, y)
          /\ x.t = "date" => f = Txt("strftime", "", x.d, 0, None)
          /\ x.t \in {"list", "dict"} => f = Txt("repr", "", 0, 0, y)

\* the Serializer wrote a record whose value is a sequence with a date in it
\* and a record whose value is missing
C15_Witness ==
  /\ Exported
  /\ \E i \in 1..Len(df_postgres.rows) :
       df_postgres.rows[i][2].t = "list" /\ HasDate(df_postgres.rows[i][2])
  /\ \E i \in 1..Len(df_postgres.rows) : df_postgres.rows[i][2].t = "nan"
====
